---- MODULE Spec2Model ----
(***************************************************************************)
(* cfgone (src/cfgone/core.py): hierarchical configuration loading.        *)
(*                                                                         *)
(*   - document trees (mapping / sequence / scalar) and _deep_merge,       *)
(*     computed on a heap of objects with identity, as Python does;        *)
(*   - _resolve_config_path and _load_config_file, the recursive loader    *)
(*     with its visited set, run step by step on an explicit call stack;   *)
(*   - _find_project_root and _discover_config_path on a chain of          *)
(*     directories;                                                        *)
(*   - DictToObj: construction, attribute writes, 'in' and _to_dict;       *)
(*   - load_config: discovery, load and construction in sequence.          *)
(*                                                                         *)
(* The specifications of the module: Spec (the loader), SpecLive (the      *)
(* loader under fairness), SpecReuse (a second load with the visited set   *)
(* of a failed one), SpecMerge (_deep_merge as a function of its two       *)
(* arguments), SpecDiscover (config discovery), SpecAccessor (DictToObj)   *)
(* and SpecLoadConfig (load_config).                                       *)
(***************************************************************************)
EXTENDS Integers, Sequences, FiniteSets, TLC

VARIABLES
    \* ---- the loader (Spec) ----
    fs,         \* the files on disk: absolute path -> content
    call,       \* the top-level call's arguments: [path, base]
    stack,      \* the active _load_config_file calls that are in their extends loop
    visited,    \* visited_files, shared by every call of one load
    status,     \* "off" | "idle" | "running" | "ok" | "error"
    retval,     \* the mapping the top-level call returned (status = "ok")
    err,        \* the exception that ended the load (status = "error")
    \* ---- _deep_merge (SpecMerge) ----
    mBase,      \* base_dict as a document tree, as it was before the call
    mOver,      \* override_dict as a document tree, as it was before the call
    mHeap,      \* the heap of dict and list objects
    mB,         \* base_dict: a scalar or a reference into mHeap
    mO,         \* override_dict: a scalar or a reference into mHeap
    mRes,       \* the value _deep_merge returned
    mpc,        \* "ready" | "done"
    \* ---- discovery (SpecDiscover) ----
    dirs,       \* the directory chain: dirs[1] is the root, dirs[Len(dirs)] the start
    dpc,        \* "tier1" | "tier2" | "tier3" | "done"
    dRoot,      \* project_root as _find_project_root returned it (0: None)
    dResult,    \* what _discover_config_path returned or raised
    \* ---- a later load with the same visited set (SpecReuse) ----
    reloaded,   \* TRUE once the caller has called _load_config_file again
    \* ---- load_config (SpecLoadConfig) ----
    lcpc,       \* "discover" | "load" | "done"
    lcOut,      \* what load_config returned or raised
    \* ---- DictToObj (SpecAccessor) ----
    aIn,        \* the mapping the accessor is constructed from
    aHeap,      \* the DictToObj objects: aHeap[i] is object i's __dict__
    aRoot,      \* the constructed accessor (an object number)
    aLeft,      \* the attribute writes the caller still makes
    apc,        \* "new" | "live" | "failed"
    aOut        \* the read made since the last write ('in' or _to_dict) and its result

loadVars == <<fs, call, stack, visited, status, retval, err>>
mergeVars == <<mBase, mOver, mHeap, mB, mO, mRes, mpc>>
discVars == <<dirs, dpc, dRoot, dResult>>
lcVars == <<lcpc, lcOut>>
accVars == <<aIn, aHeap, aRoot, aLeft, apc, aOut>>
vars == <<loadVars, mergeVars, discVars, reloaded, lcVars, accVars>>

-----------------------------------------------------------------------------
(* Bounds.                                                                 *)

\* The number of nodes of a document tree passed to _deep_merge.
MaxNodes == 3

\* The number of extends entries, over all files, of a generated file system.
MaxEdges == 3

\* The number of ancestors of the directory discovery starts from.
MaxAncestors == 3

-----------------------------------------------------------------------------
(* Document trees: what yaml.safe_load returns.                            *)

Sc(n) == [t |-> "sc", v |-> n]
Sq(s) == [t |-> "seq", v |-> s]
Mp(f) == [t |-> "map", v |-> f]
Ref(i) == [t |-> "ref", v |-> i]

EmptyMap == [k \in {} |-> 0]
EmptyDoc == Mp(EmptyMap)

\* A key that is no string (YAML "1: x" gives the int 1): the model's keys are
\* strings, and this one stands for it.
IntKey == "<int 1>"
IsStrKey(k) == k # IntKey

\* The keys of the mappings, in the order the model iterates a dict.
KeyOrder == <<"a", "b", "c", "d", "e", "f", "r", "get", IntKey>>

\* The keys and scalars the generated trees are built from.
TreeKeys == <<"a", "b">>
Scalars == {1, 2}

\* f with f[key] = val (dict item assignment).
Put(f, key, val) == [k \in DOMAIN f \cup {key} |-> IF k = key THEN val ELSE f[k]]

\* The keys of mapping f as a sequence, in iteration order.
RECURSIVE KeysFrom(_, _)
KeysFrom(f, i) ==
    IF i > Len(KeyOrder) THEN <<>>
    ELSE (IF KeyOrder[i] \in DOMAIN f THEN <<KeyOrder[i]>> ELSE <<>>) \o KeysFrom(f, i + 1)
KeysOf(f) == KeysFrom(f, 1)

\* The document trees of exactly n nodes over the keys TreeKeys.
RECURSIVE TreesOfSize(_), SeqsOfSize(_), MapsOfSize(_, _)
TreesOfSize(n) ==
    (IF n = 1 THEN {Sc(s) : s \in Scalars} ELSE {})
        \cup {Sq(s) : s \in SeqsOfSize(n - 1)}
        \cup {Mp(f) : f \in MapsOfSize(1, n - 1)}
SeqsOfSize(m) ==
    IF m = 0 THEN {<<>>}
    ELSE UNION {{<<h>> \o tl : h \in TreesOfSize(k), tl \in SeqsOfSize(m - k)} : k \in 1..m}
MapsOfSize(i, m) ==
    IF i > Len(TreeKeys) THEN (IF m = 0 THEN {EmptyMap} ELSE {})
    ELSE MapsOfSize(i + 1, m)
            \cup UNION {{Put(f, TreeKeys[i], h) : h \in TreesOfSize(k), f \in MapsOfSize(i + 1, m - k)}
                            : k \in 1..m}

Trees == UNION {TreesOfSize(n) : n \in 1..MaxNodes}

-----------------------------------------------------------------------------
(* The heap: Python's dict and list objects have identity, and a dict's    *)
(* values are scalars or references to other objects.                      *)

IsDict(h, x) == x.t = "ref" /\ h[x.v].t = "map"
IsList(h, x) == x.t = "ref" /\ h[x.v].t = "seq"

\* Build tree d on heap h: [h |-> the heap, r |-> the value that denotes d].
RECURSIVE Alloc(_, _), AllocSeq(_, _, _), AllocMap(_, _, _, _)
Alloc(h, d) ==
    IF d.t = "sc" THEN [h |-> h, r |-> d]
    ELSE IF d.t = "seq" THEN
        LET a == AllocSeq(h, d.v, <<>>)
        IN  [h |-> Append(a.h, Sq(a.r)), r |-> Ref(Len(a.h) + 1)]
    ELSE
        LET a == AllocMap(h, d.v, KeysOf(d.v), EmptyMap)
        IN  [h |-> Append(a.h, Mp(a.r)), r |-> Ref(Len(a.h) + 1)]
AllocSeq(h, s, acc) ==
    IF s = <<>> THEN [h |-> h, r |-> acc]
    ELSE LET a == Alloc(h, Head(s)) IN AllocSeq(a.h, Tail(s), Append(acc, a.r))
AllocMap(h, f, ks, acc) ==
    IF ks = <<>> THEN [h |-> h, r |-> acc]
    ELSE LET a == Alloc(h, f[Head(ks)]) IN AllocMap(a.h, f, Tail(ks), Put(acc, Head(ks), a.r))

\* The document tree that value x denotes on heap h (h holds no cycle here).
RECURSIVE Val(_, _)
Val(h, x) ==
    IF x.t = "sc" THEN x
    ELSE IF h[x.v].t = "seq" THEN Sq([i \in 1..Len(h[x.v].v) |-> Val(h, h[x.v].v[i])])
    ELSE Mp([k \in DOMAIN h[x.v].v |-> Val(h, h[x.v].v[k])])

\* result[key] = val on the dict object id.
SetItem(h, id, key, val) == [h EXCEPT ![id] = Mp(Put(h[id].v, key, val))]

-----------------------------------------------------------------------------
(* _deep_merge (core.py 109-136).                                          *)

\* base_dict.copy(): a new dict object holding the same values (line 124).
DictCopyShared(h, b) == [h |-> h, id |-> b.v]
DictCopy(h, b) == [h |-> Append(h, h[b.v]), id |-> Len(h) + 1]

\* What the list branch stores (lines 129-132): the override list, whole.
ListMergeConcat(h, old, new) ==
    [h |-> Append(h, Sq(h[old.v].v \o h[new.v].v)), r |-> Ref(Len(h) + 1)]
ListMerge(h, old, new) == [h |-> h, r |-> new]

\* The loop of lines 126-134 over the keys ks of override object oid, writing
\* into result object rid.
RECURSIVE deep_merge_heap(_, _, _), MergeLoop(_, _, _, _)
MergeLoop(h, rid, oid, ks) ==
    IF ks = <<>> THEN [h |-> h, r |-> Ref(rid)]
    ELSE
        LET key == Head(ks)
            value == h[oid].v[key]
            has == key \in DOMAIN h[rid].v
        IN  IF has /\ IsDict(h, h[rid].v[key]) /\ IsDict(h, value) THEN
                LET m == deep_merge_heap(h, h[rid].v[key], value)
                IN  MergeLoop(SetItem(m.h, rid, key, m.r), rid, oid, Tail(ks))
            ELSE IF has /\ IsList(h, h[rid].v[key]) /\ IsList(h, value) THEN
                LET m == ListMerge(h, h[rid].v[key], value)
                IN  MergeLoop(SetItem(m.h, rid, key, m.r), rid, oid, Tail(ks))
            ELSE MergeLoop(SetItem(h, rid, key, value), rid, oid, Tail(ks))
deep_merge_heap(h, b, o) ==
    IF ~IsDict(h, b) \/ ~IsDict(h, o) THEN [h |-> h, r |-> o]
    ELSE LET c == DictCopy(h, b)
         IN  MergeLoop(c.h, c.id, o.v, KeysOf(h[o.v].v))

\* The element of a singleton.
The(S) == CHOOSE x \in S : TRUE

\* _deep_merge as a function of two document trees: the arguments are built
\* on an empty heap (a), merged there (m), and the result is read back.  Each
\* intermediate result is bound as the element of a singleton, so that it is
\* computed once.
deep_merge(base, override) ==
    LET Merged(a) == {deep_merge_heap(c.h, a.r, c.r) : c \in {Alloc(a.h, override)}}
    IN  The({Val(m.h, m.r) : m \in UNION {Merged(a) : a \in {Alloc(<<>>, base)}}})

-----------------------------------------------------------------------------
(* SpecMerge: one call _deep_merge(base_dict, override_dict).              *)

\* The example of tests/test_usage.py test_deep_merge_basic.
ExampleBase ==
    Mp([k \in {"a", "b"} |->
        IF k = "a" THEN Sc(1) ELSE Mp([j \in {"c", "d"} |-> IF j = "c" THEN Sc(2) ELSE Sc(3)])])
ExampleOverride ==
    Mp([k \in {"b", "f"} |->
        IF k = "f" THEN Sc(6) ELSE Mp([j \in {"c", "e"} |-> IF j = "c" THEN Sc(4) ELSE Sc(5)])])
ExampleMerged ==
    Mp([k \in {"a", "b", "f"} |->
        IF k = "a" THEN Sc(1)
        ELSE IF k = "f" THEN Sc(6)
        ELSE Mp([j \in {"c", "d", "e"} |->
                IF j = "c" THEN Sc(4) ELSE IF j = "d" THEN Sc(3) ELSE Sc(5)])])

MergeInputs ==
    (Trees \X Trees) \cup {<<ExampleBase, ExampleOverride>>}

LoadIdle ==
    /\ fs = <<>>
    /\ call = <<>>
    /\ stack = <<>>
    /\ visited = {}
    /\ status = "off"
    /\ retval = EmptyDoc
    /\ err = <<>>

MergeIdle ==
    /\ mBase = EmptyDoc
    /\ mOver = EmptyDoc
    /\ mHeap = <<>>
    /\ mB = Sc(0)
    /\ mO = Sc(0)
    /\ mRes = Sc(0)
    /\ mpc = "off"

DiscIdle ==
    /\ dirs = <<>>
    /\ dpc = "off"
    /\ dRoot = 0
    /\ dResult = [kind |-> "none", dir |-> 0]

LcIdle ==
    /\ lcpc = "off"
    /\ lcOut = <<>>

\* No 'in' or _to_dict since the last write.
NoRead == [op |-> "none"]

AccIdle ==
    /\ aIn = EmptyDoc
    /\ aHeap = <<>>
    /\ aRoot = 0
    /\ aLeft = 0
    /\ apc = "off"
    /\ aOut = NoRead

\* The two arguments are distinct objects, or (same = TRUE) one object passed twice.
InitMerge ==
    /\ LoadIdle
    /\ DiscIdle
    /\ LcIdle
    /\ AccIdle
    /\ reloaded = FALSE
    /\ \E in \in MergeInputs, same \in BOOLEAN :
        /\ same => in[2] = in[1]
        /\ LET a == Alloc(<<>>, in[1])
               c == IF same THEN a ELSE Alloc(a.h, in[2])
           IN  /\ mBase = in[1]
               /\ mOver = in[2]
               /\ mHeap = c.h
               /\ mB = a.r
               /\ mO = c.r
    /\ mRes = Sc(0)
    /\ mpc = "ready"

MergeCall ==
    /\ mpc = "ready"
    /\ LET m == deep_merge_heap(mHeap, mB, mO)
       IN  /\ mHeap' = m.h
           /\ mRes' = m.r
    /\ mpc' = "done"
    /\ UNCHANGED <<mBase, mOver, mB, mO, loadVars, discVars, reloaded, lcVars, accVars>>

NextMerge == MergeCall

SpecMerge == InitMerge /\ [][NextMerge]_vars

-----------------------------------------------------------------------------
(* Paths.  A path string is absolute or relative and is a sequence of      *)
(* components; ".." is a component like any other until the path is        *)
(* normalised.                                                             *)

Path(isabs, parts) == [abs |-> isabs, parts |-> parts]

\* The process's working directory.
Cwd == <<"p">>

\* os.path.normpath on the components of an absolute path: ".." removes the
\* component before it, and is dropped at the root.
RECURSIVE NormFrom(_, _)
NormFrom(rest, acc) ==
    IF rest = <<>> THEN acc
    ELSE IF Head(rest) = ".." THEN
        NormFrom(Tail(rest), IF acc = <<>> THEN acc ELSE SubSeq(acc, 1, Len(acc) - 1))
    ELSE NormFrom(Tail(rest), Append(acc, Head(rest)))
Norm(parts) == NormFrom(parts, <<>>)

\* os.path.join(a, b) for a relative b.
Join(a, b) == Path(a.abs, a.parts \o b.parts)

\* os.path.abspath: join onto the working directory when relative, then normalise.
AbsPath(p) == Path(TRUE, Norm((IF p.abs THEN <<>> ELSE Cwd) \o p.parts))

\* os.path.dirname.
Dirname(p) == Path(p.abs, IF p.parts = <<>> THEN <<>> ELSE SubSeq(p.parts, 1, Len(p.parts) - 1))

\* _resolve_config_path (core.py 191-204).
resolve_config_path_nojoin(config_path, base_dir) == config_path
resolve_config_path(config_path, base_dir) ==
    IF config_path.abs THEN config_path ELSE Join(base_dir, config_path)

-----------------------------------------------------------------------------
(* The file system the loader reads.  fs maps the components of an         *)
(* absolute path to what is there: nothing, or a file that cannot be read, *)
(* or cannot be parsed, or parses to doc (the parsed document without its  *)
(* "extends" key) and ext (the value of the "extends" key).                *)

ExtNone == [t |-> "none", v |-> <<>>]
ExtStr == [t |-> "str", v |-> <<>>]
ExtList(es) == [t |-> "list", v |-> es]

\* An entry of an extends list: a path string, or something that is no string.
EntryStr(p) == [str |-> TRUE, abs |-> p.abs, parts |-> p.parts]
EntryInt == [str |-> FALSE, abs |-> FALSE, parts |-> <<>>]
EntryPath(e) == Path(e.abs, e.parts)

Missing == [kind |-> "missing", doc |-> EmptyDoc, ext |-> ExtNone]
Unreadable == [kind |-> "ioerr", doc |-> EmptyDoc, ext |-> ExtNone]
BadYaml == [kind |-> "yamlerr", doc |-> EmptyDoc, ext |-> ExtNone]
File(doc, ext) == [kind |-> "doc", doc |-> doc, ext |-> ext]

IsPrefix(d, f) == Len(d) < Len(f) /\ SubSeq(f, 1, Len(d)) = d
IsFile(parts) == parts \in DOMAIN fs /\ fs[parts].kind # "missing"
IsDir(parts) ==
    \/ IsPrefix(parts, Cwd) \/ parts = Cwd
    \/ \E f \in DOMAIN fs : fs[f].kind # "missing" /\ IsPrefix(parts, f)

\* The operating system's walk along the components: ".." needs the
\* directory it leaves to exist.
RECURSIVE WalkExists(_, _)
WalkExists(rest, cur) ==
    IF rest = <<>> THEN IsFile(cur) \/ IsDir(cur)
    ELSE IF Head(rest) = ".." THEN
        IsDir(cur) /\ WalkExists(Tail(rest), IF cur = <<>> THEN cur ELSE SubSeq(cur, 1, Len(cur) - 1))
    ELSE WalkExists(Tail(rest), Append(cur, Head(rest)))

\* os.path.exists.
Exists(p) == WalkExists((IF p.abs THEN <<>> ELSE Cwd) \o p.parts, <<>>)

\* What open() and yaml.safe_load make of the path (it exists).
ReadFile(p) ==
    LET a == AbsPath(p).parts IN IF IsFile(a) THEN fs[a] ELSE Unreadable

\* Python's truth value of a parsed document (line 238: "or {}").
Falsy(d) == d = EmptyDoc \/ d = Sq(<<>>) \/ d = Sc(0)

-----------------------------------------------------------------------------
(* _load_config_file (core.py 207-270).                                    *)

NoPath == Path(FALSE, <<>>)
NoErr == [cls |-> "none", kind |-> "none", path |-> NoPath]
ConfigError(kind, p) == [cls |-> "ConfigError", kind |-> kind, path |-> p]
OtherError(kind, p) == [cls |-> kind, kind |-> "unexpected", path |-> p]

NoFrame ==
    [path |-> NoPath, abs |-> NoPath, base |-> NoPath, config |-> EmptyDoc,
     extends |-> <<>>, i |-> 0, resolved |-> NoPath, merged |-> EmptyDoc, entry |-> {}]

\* visited_files.remove(abs_config_path) (lines 248 and 269).
LeaveKeep(vis, abs) == vis
Leave(vis, abs) == vis \ {abs}

\* visited_files.add(abs_config_path) (line 234).
VisitSkip(vis, abs) == vis
Visit(vis, abs) == vis \cup {abs}

\* The base_dir a recursive call is given (line 263).
ChildBasePerFile(base_dir, config_path) == Dirname(AbsPath(config_path))
ChildBase(base_dir, config_path) == base_dir

\* The error of line 229 for config_path p with absolute form abs.
CircularErrorRaw(p, abs) == ConfigError("circular", p)
CircularError(p, abs) == ConfigError("circular", abs)

\* A raise leaves the caller's set object as the call has changed it so far.
RaiseCleared(e, vis) == [k |-> "raise", err |-> e, val |-> EmptyDoc, frame |-> NoFrame, vis |-> {}]
Raise(e, vis) == [k |-> "raise", err |-> e, val |-> EmptyDoc, frame |-> NoFrame, vis |-> vis]
Return(d, vis) == [k |-> "return", err |-> NoErr, val |-> d, frame |-> NoFrame, vis |-> vis]
Loop(f, vis) == [k |-> "loop", err |-> NoErr, val |-> EmptyDoc, frame |-> f, vis |-> vis]

\* Lines 225-255 of a call with config_path p and base_dir base, entered with
\* visited set vis: it raises, or returns (no extends), or starts its loop.
\* config_dict.pop("extends", None) (line 245) raises TypeError on a list and
\* AttributeError on a scalar.
Enter(p, base, vis) ==
    LET abs == AbsPath(p) IN
    IF abs \in vis THEN Raise(CircularError(p, abs), vis)
    ELSE IF ~Exists(p) THEN Raise(ConfigError("notfound", p), vis)
    ELSE
        LET vis1 == Visit(vis, abs)
            file == ReadFile(p)
            config_dict == IF file.ext.t = "none" /\ Falsy(file.doc) THEN EmptyDoc ELSE file.doc
        IN  IF file.kind = "yamlerr" THEN Raise(ConfigError("yaml", p), vis1)
            ELSE IF file.kind = "ioerr" THEN Raise(ConfigError("read", p), vis1)
            ELSE IF config_dict.t = "seq" THEN Raise(OtherError("TypeError", p), vis1)
            ELSE IF config_dict.t # "map" THEN Raise(OtherError("AttributeError", p), vis1)
            ELSE IF file.ext.t = "none" THEN Return(config_dict, Leave(vis1, abs))
            ELSE IF file.ext.t # "list" THEN Raise(ConfigError("extends_type", p), vis1)
            ELSE Loop([path |-> p, abs |-> abs, base |-> base, config |-> config_dict,
                       extends |-> file.ext.v, i |-> 0, resolved |-> NoPath,
                       merged |-> EmptyDoc, entry |-> vis], vis1)

\* Line 264 in the caller's frame, once the call of its current entry returned d.
MergeExtendedSwapped(f, d) == [f EXCEPT !.merged = deep_merge(d, f.merged)]
MergeExtended(f, d) == [f EXCEPT !.merged = deep_merge(f.merged, d)]

\* Line 267.
FinalConfigSwapped(f) == deep_merge(f.config, f.merged)
FinalConfig(f) == deep_merge(f.merged, f.config)

Top == stack[Len(stack)]
Pop == SubSeq(stack, 1, Len(stack) - 1)
SetTop(s, f) == [s EXCEPT ![Len(s)] = f]

\* The outcome r of a call made from the state whose stack (below the call) is s.
Outcome(r, s) ==
    /\ visited' = r.vis
    /\ IF r.k = "raise" THEN
            /\ status' = "error"
            /\ err' = r.err
            /\ stack' = <<>>
            /\ UNCHANGED retval
       ELSE IF r.k = "loop" THEN
            /\ status' = "running"
            /\ stack' = Append(s, r.frame)
            /\ UNCHANGED <<retval, err>>
       ELSE IF s = <<>> THEN
            /\ status' = "ok"
            /\ retval' = r.val
            /\ stack' = s
            /\ UNCHANGED err
       ELSE
            /\ status' = "running"
            /\ \E f \in {MergeExtended(s[Len(s)], r.val)} : stack' = SetTop(s, f)
            /\ UNCHANGED <<retval, err>>

\* The top-level call _load_config_file(path) or _load_config_file(path, None, base):
\* lines 219-223, then the body.
Load ==
    /\ status = "idle"
    /\ LET base == IF call.given THEN call.base ELSE Dirname(AbsPath(call.path))
       IN  \E r \in {Enter(call.path, base, {})} : Outcome(r, <<>>)
    /\ UNCHANGED <<fs, call, mergeVars, discVars, reloaded, lcVars, accVars>>

\* One iteration of the loop of lines 258-264, up to the recursive call's
\* outcome (and line 264 when that call returns at once).
Extend ==
    /\ status = "running"
    /\ Top.i < Len(Top.extends)
    /\ LET f == Top
           extend_path == f.extends[f.i + 1]
       IN  IF ~extend_path.str THEN
                Outcome(Raise(ConfigError("entry_type", f.path), visited), Pop)
           ELSE
                LET resolved_path == resolve_config_path(EntryPath(extend_path), f.base)
                    g == [f EXCEPT !.i = f.i + 1, !.resolved = resolved_path]
                IN  \E r \in {Enter(resolved_path, ChildBase(f.base, resolved_path), visited)},
                       s \in {SetTop(stack, g)} :
                        Outcome(r, s)
    /\ UNCHANGED <<fs, call, mergeVars, discVars, reloaded, lcVars, accVars>>

\* Lines 267-270 of the call on top of the stack, and line 264 of its caller.
Finish ==
    /\ status = "running"
    /\ Top.i = Len(Top.extends)
    /\ \E r \in {Return(FinalConfig(Top), Leave(visited, Top.abs))}, s \in {Pop} : Outcome(r, s)
    /\ UNCHANGED <<fs, call, mergeVars, discVars, reloaded, lcVars, accVars>>

Next == Load \/ Extend \/ Finish

\* After a load that raised, the caller calls _load_config_file(p, visited_files)
\* once more with the set object it gave to the failed call (lines 219-220: a
\* set that is given is used as it is), for the absolute path p of a file.
Reload ==
    /\ status = "error"
    /\ ~reloaded
    /\ reloaded' = TRUE
    /\ \E f \in {g \in DOMAIN fs : IsFile(g)} :
            /\ call' = [path |-> Path(TRUE, f), given |-> FALSE, base |-> NoPath]
            /\ \E r \in {Enter(Path(TRUE, f), Dirname(AbsPath(Path(TRUE, f))), visited)} :
                    Outcome(r, <<>>)
    /\ UNCHANGED <<fs, mergeVars, discVars, lcVars, accVars>>

NextReuse == Load \/ Extend \/ Finish \/ Reload

-----------------------------------------------------------------------------
(* The extends graph of a file system F under base directory base.         *)

\* The files an extends list names, as absolute paths.
Targets(F, f, base) ==
    IF F[f].kind = "doc" /\ F[f].ext.t = "list"
    THEN {AbsPath(resolve_config_path(EntryPath(F[f].ext.v[j]), base)).parts :
            j \in {j \in DOMAIN F[f].ext.v : F[f].ext.v[j].str}}
    ELSE {}

RECURSIVE ReachFrom(_, _, _)
ReachFrom(F, base, S) ==
    LET nxt == S \cup UNION {Targets(F, f, base) \cap DOMAIN F : f \in S}
    IN  IF nxt = S THEN S ELSE ReachFrom(F, base, nxt)

\* The files reachable from f by one or more extends steps.
Descendants(F, base, f) == ReachFrom(F, base, Targets(F, f, base) \cap DOMAIN F)

\* Files no load from top can read are left out: they cannot change a load.
Canonical(F, base, top) ==
    \/ \A f \in DOMAIN F \ {top} : F[f] = Missing
    \/ LET reach == {top} \cup Descendants(F, base, top)
       IN  \A f \in DOMAIN F : F[f] = Missing \/ f \in reach

-----------------------------------------------------------------------------
(* The file systems and calls of Spec.                                     *)

Rel(parts) == EntryStr(Path(FALSE, parts))
Abs(parts) == EntryStr(Path(TRUE, parts))
CallOf(p) == [path |-> p, given |-> FALSE, base |-> NoPath]
CallWith(p, b) == [path |-> p, given |-> TRUE, base |-> b]

Doc1(k, d) == Mp([x \in {k} |-> d])
Doc2(k1, d1, k2, d2) == Mp([x \in {k1, k2} |-> IF x = k1 THEN d1 ELSE d2])

\* (1) Three files in the working directory with any extends lists, among them
\* files that are missing, unreadable or malformed.
GFiles == {<<"p", "a">>, <<"p", "b">>, <<"p", "c">>}
GOwn(f) ==
    IF f[2] = "a" THEN Doc2("a", Sc(1), "b", Doc1("c", Sc(1)))
    ELSE IF f[2] = "b" THEN
        Mp([x \in {"a", "b", "f"} |->
            IF x = "a" THEN Sc(2) ELSE IF x = "f" THEN Sc(2) ELSE Doc2("c", Sc(2), "d", Sc(2))])
    ELSE Doc2("b", Doc1("e", Sc(3)), "f", Sq(<<Sc(3)>>))
GEntries == {Rel(<<"a">>), Rel(<<"..", "p", "a">>), Rel(<<"b">>), Rel(<<"c">>), EntryInt}
GContents(f, n) ==
    (IF n = 0
     THEN {Missing, Unreadable, BadYaml, File(Sq(<<Sc(1)>>), ExtNone), File(Sq(<<>>), ExtNone),
           File(GOwn(f), ExtNone), File(GOwn(f), ExtStr)}
     ELSE {})
        \cup {File(GOwn(f), ExtList(es)) : es \in [1..n -> GEntries]}

GeneralFS(c1, c2, c3) ==
    [f \in GFiles |-> IF f[2] = "a" THEN c1 ELSE IF f[2] = "b" THEN c2 ELSE c3]
\* The file systems whose files hold what Contents(f, n) allows, with n1, n2
\* and n3 extends entries in a, b and c (when a has none, it reaches no file,
\* and b and c are missing).
InitGeneralOf(Contents(_, _)) ==
    \E n1 \in 0..MaxEdges :
        \E n2 \in IF n1 = 0 THEN {0} ELSE 0..(MaxEdges - n1) :
            \E n3 \in IF n1 = 0 THEN {0} ELSE 0..(MaxEdges - n1 - n2) :
                \E c1 \in Contents(<<"p", "a">>, n1), c2 \in Contents(<<"p", "b">>, n2),
                   c3 \in Contents(<<"p", "c">>, n3) :
                    /\ fs = GeneralFS(c1, c2, c3)
                    /\ call = CallOf(Path(FALSE, <<"a">>))
                    /\ Canonical(fs, Path(TRUE, Cwd), <<"p", "a">>)

InitGeneral == InitGeneralOf(GContents)

\* (2) The diamond: d extends [a, b], a extends [c], b extends [c].
DFiles == {<<"p", "d">>, <<"p", "a">>, <<"p", "b">>, <<"p", "c">>}
DOwn(i) ==
    {EmptyDoc, Doc1("a", Sc(i)), Doc1("a", Doc1("b", Sc(i))), Doc1("a", Doc1("c", Sc(i))),
     Doc1("a", Sq(<<Sc(i)>>))}
DiamondFS(od, oa, ob, oc) ==
    [f \in DFiles |->
        IF f[2] = "d" THEN File(od, ExtList(<<Rel(<<"a">>), Rel(<<"b">>)>>))
        ELSE IF f[2] = "a" THEN File(oa, ExtList(<<Rel(<<"c">>)>>))
        ELSE IF f[2] = "b" THEN File(ob, ExtList(<<Rel(<<"c">>)>>))
        ELSE File(oc, ExtNone)]

InitDiamond ==
    \E od \in DOwn(4), ob \in DOwn(3), oa \in DOwn(2), oc \in DOwn(1) :
        /\ fs = DiamondFS(od, oa, ob, oc)
        /\ call = CallOf(Path(FALSE, <<"d">>))

\* (3) Two directories, /p and /p/q: a, with fields of its own or with none,
\* extends one b, which may extend one c, by relative or absolute paths, loaded
\* with or without a base directory.
RDirs == {<<"p">>, <<"p", "q">>}
RFiles == {d \o <<n>> : d \in RDirs, n \in {"a", "b", "c"}}
ROwn(f) == Doc1(f[Len(f)], Sc(Len(f)))
REntries(n) ==
    {Rel(<<n>>), Rel(<<"..", n>>), Rel(<<"q", n>>), Abs(<<"p", n>>), Abs(<<"p", "q", n>>)}
RContents(f) ==
    IF f[Len(f)] = "a" THEN
        {Missing} \cup {File(d, ExtList(<<e>>)) : d \in {ROwn(f), EmptyDoc}, e \in REntries("b")}
    ELSE IF f[Len(f)] = "b" THEN
        {Missing, File(ROwn(f), ExtNone)}
            \cup {File(ROwn(f), ExtList(<<e>>)) : e \in REntries("c")}
    ELSE {Missing, File(ROwn(f), ExtNone)}
RCalls ==
    LET paths == {Path(FALSE, <<"a">>), Path(FALSE, <<"q", "a">>), Path(TRUE, <<"p", "q", "a">>)}
    IN  {CallOf(p) : p \in paths}
            \cup {CallWith(p, Path(TRUE, d)) : p \in paths, d \in RDirs}
CallBase(c) == IF c.given THEN c.base ELSE Dirname(AbsPath(c.path))

DirsFS(c, ca, b1, b2, c1, c2) ==
    [f \in RFiles |->
        IF f = AbsPath(c.path).parts THEN ca
        ELSE IF f = <<"p", "b">> THEN b1
        ELSE IF f = <<"p", "q", "b">> THEN b2
        ELSE IF f = <<"p", "c">> THEN c1
        ELSE IF f = <<"p", "q", "c">> THEN c2
        ELSE Missing]
InitDirs ==
    \E c \in RCalls, ca \in RContents(<<"p", "a">>) \ {Missing},
       b1 \in RContents(<<"p", "b">>), b2 \in RContents(<<"p", "q", "b">>),
       c1 \in RContents(<<"p", "c">>), c2 \in RContents(<<"p", "q", "c">>) :
        /\ fs = DirsFS(c, ca, b1, b2, c1, c2)
        /\ call = c

Init ==
    /\ InitGeneral \/ InitDiamond \/ InitDirs
    /\ stack = <<>>
    /\ visited = {}
    /\ status = "idle"
    /\ retval = EmptyDoc
    /\ err = NoErr
    /\ MergeIdle
    /\ DiscIdle
    /\ LcIdle
    /\ AccIdle
    /\ reloaded = FALSE

Spec == Init /\ [][Next]_vars

-----------------------------------------------------------------------------
(* What the claims about the loader speak of.                              *)

Done == status \in {"ok", "error"}
TopAbs == AbsPath(call.path).parts
LoadBase == CallBase(call)
TopDir == Dirname(AbsPath(call.path))

\* The files the load can reach: the top-level file and its descendants.
Reachable == (IF TopAbs \in DOMAIN fs THEN {TopAbs} ELSE {}) \cup Descendants(fs, LoadBase, TopAbs)

\* f extends itself, directly or through other files.
OnCycle(f) == f \in DOMAIN fs /\ f \in Descendants(fs, LoadBase, f)

\* f is a readable file that parses to a mapping whose extends, if any, is a
\* list of strings that name existing paths.
WellFormed(f) ==
    /\ fs[f].kind = "doc"
    /\ fs[f].doc.t = "map" \/ Falsy(fs[f].doc)
    /\ fs[f].ext.t \in {"none", "list"}
    /\ \A j \in DOMAIN fs[f].ext.v :
        /\ fs[f].ext.v[j].str
        /\ Exists(resolve_config_path(EntryPath(fs[f].ext.v[j]), LoadBase))
        /\ IsFile(AbsPath(resolve_config_path(EntryPath(fs[f].ext.v[j]), LoadBase)).parts)
AllWellFormed == Exists(call.path) /\ IsFile(TopAbs) /\ \A f \in Reachable : WellFormed(f)

StackPaths == {stack[i].abs : i \in DOMAIN stack}

\* The entry the frame's loop is at (f.i >= 1), and whether it is a relative path.
CurEntry(f) == f.extends[f.i]
AtRelEntry(f) == f.i >= 1 /\ CurEntry(f).str /\ ~CurEntry(f).abs

-----------------------------------------------------------------------------
(* C1.                                                                     *)

\* C1 as stated: a load of a file that transitively extends itself always ends
\* with the ConfigError "Circular dependency detected" naming a file that
\* extends itself.
C1_AlwaysCircular ==
    (Done /\ OnCycle(TopAbs)) =>
        (status = "error" /\ err.cls = "ConfigError" /\ err.kind = "circular"
            /\ OnCycle(err.path.parts))

C1_Inv ==
    (Done /\ OnCycle(TopAbs)) =>
        /\ status = "error"
        /\ AllWellFormed =>
            (err.cls = "ConfigError" /\ err.kind = "circular" /\ OnCycle(err.path.parts))
C1_Step ==
    (status' = "error" /\ err'.kind = "circular") =>
        (err'.cls = "ConfigError" /\ \E i \in DOMAIN stack : stack[i].abs = err'.path)

\* C1 (amended): a load of a file that transitively extends itself never returns
\* a mapping; when every file the load can reach exists, is readable and is
\* well-formed, it fails with the ConfigError "Circular dependency detected"; and
\* whenever that error is raised it names the absolute path of a file that is on
\* the active chain of callers (found a second time on its own ancestor chain).
C1_CycleFails == [](C1_Inv) /\ [][C1_Step]_vars

\* A three-file cycle a -> b -> c -> a ended with the circular error naming a.
C1_Witness ==
    /\ status = "error" /\ err = ConfigError("circular", Path(TRUE, <<"p", "a">>))
    /\ AllWellFormed
    /\ <<"p", "b">> \in Targets(fs, <<"p", "a">>, LoadBase)
    /\ <<"p", "c">> \in Targets(fs, <<"p", "b">>, LoadBase)
    /\ <<"p", "a">> \in Targets(fs, <<"p", "c">>, LoadBase)

-----------------------------------------------------------------------------
(* C2.                                                                     *)

Acyclic == \A f \in Reachable : ~OnCycle(f)
IsDiamond == DOMAIN fs = DFiles

\* C2: when the extends graph reachable from the loaded file is acyclic and every
\* file exists and is well-formed, the load succeeds (no circular-dependency
\* error), also when a file is reached twice through independent branches.
C2_AcyclicLoads == (Done /\ AllWellFormed /\ Acyclic) => status = "ok"

\* The diamond loaded: c was loaded twice, through a and through b.
C2_Witness == status = "ok" /\ IsDiamond /\ AllWellFormed /\ Acyclic

-----------------------------------------------------------------------------
(* C3.                                                                     *)

DocOf(n) == fs[<<"p", n>>].doc
Defines(n, k) == k \in DOMAIN DocOf(n).v
DiamondKeys == UNION {DOMAIN DocOf(n).v : n \in {"a", "b", "c", "d"}}

\* The value of key k in the first file of order (a sequence of names) that defines it.
RECURSIVE FirstValue(_, _)
FirstValue(order, k) ==
    IF Defines(Head(order), k) THEN DocOf(Head(order)).v[k] ELSE FirstValue(Tail(order), k)

\* C3 as stated, for the keys no file maps to a mapping: the value is that of the
\* first file that defines the key in the order d, b, a, c.
C3_OrderDBAC ==
    (status = "ok" /\ IsDiamond) =>
        \A k \in DiamondKeys :
            (\A n \in {"a", "b", "c", "d"} : Defines(n, k) => DocOf(n).v[k].t # "map") =>
                (k \in DOMAIN retval.v /\ retval.v[k] = FirstValue(<<"d", "b", "a", "c">>, k))

\* C3 (amended): in the diamond the loaded mapping has the keys of the four files,
\* and a key whose highest-precedence value is not a mapping holds that value,
\* in the precedence order d, then b, then c, then a: c is loaded again through
\* b, after a, so c's value overrides a's.
C3_OrderDBCA ==
    (status = "ok" /\ IsDiamond) =>
        /\ DOMAIN retval.v = DiamondKeys
        /\ \A k \in DiamondKeys :
            FirstValue(<<"d", "b", "c", "a">>, k).t # "map" =>
                retval.v[k] = FirstValue(<<"d", "b", "c", "a">>, k)

\* a and c define key "a", b and d do not: the loaded value is c's.
C3_Witness ==
    /\ status = "ok" /\ IsDiamond
    /\ DocOf("a") = Doc1("a", Sc(2)) /\ DocOf("c") = Doc1("a", Sc(1))
    /\ DocOf("b") = EmptyDoc /\ DocOf("d") = EmptyDoc
    /\ retval = Doc1("a", Sc(1))

-----------------------------------------------------------------------------
(* C4.                                                                     *)

\* The mapping a successful load of file f returns, by recursion on the extends
\* graph: the file's own mapping merged over the left fold of its entries'.
RECURSIVE RefLoad(_), RefFold(_, _)
RefFold(es, n) ==
    IF n = 0 THEN EmptyDoc
    ELSE deep_merge(RefFold(es, n - 1),
                    RefLoad(AbsPath(resolve_config_path(EntryPath(es[n]), LoadBase)).parts))
RefLoad(f) ==
    LET own == IF fs[f].ext.t = "none" /\ Falsy(fs[f].doc) THEN EmptyDoc ELSE fs[f].doc
    IN  IF fs[f].ext.t = "none" THEN own
        ELSE deep_merge(RefFold(fs[f].ext.v, Len(fs[f].ext.v)), own)

\* The entries of frame number j whose calls have returned.
Completed(j) == IF j = Len(stack) THEN stack[j].i ELSE stack[j].i - 1

\* C4: the loaded mapping of a file with extends [E1..En] is deep_merge(the left
\* fold of deep_merge over the resolved mappings of E1..En from the empty
\* mapping, the file's own mapping); so the file's own non-mapping value for a key
\* overrides every extends result, and among the entries the last one whose
\* resolved mapping holds a non-mapping value for a key overrides the earlier ones.
C4_FoldThenSelf ==
    /\ status = "running" =>
        \A j \in DOMAIN stack : stack[j].merged = RefFold(stack[j].extends, Completed(j))
    /\ status = "ok" =>
        /\ retval = RefLoad(TopAbs)
        /\ fs[TopAbs].ext.t = "list" =>
            LET es == fs[TopAbs].ext.v
                own == fs[TopAbs].doc
                res(n) == RefLoad(AbsPath(resolve_config_path(EntryPath(es[n]), LoadBase)).parts)
            IN  /\ \A k \in DOMAIN own.v : own.v[k].t # "map" => retval.v[k] = own.v[k]
                /\ \A n \in DOMAIN es : \A k \in DOMAIN res(n).v :
                    (/\ res(n).v[k].t # "map"
                     /\ k \notin DOMAIN own.v
                     /\ \A m \in DOMAIN es : m > n => k \notin DOMAIN res(m).v)
                        => retval.v[k] = res(n).v[k]

\* a extends [b, c]: key "f" is 2 in b and [3] in c (the later entry wins), key
\* "a" is 2 in b and 1 in a itself (the file's own value wins).
C4_Witness ==
    /\ status = "ok" /\ DOMAIN fs = GFiles
    /\ fs[TopAbs].ext = ExtList(<<Rel(<<"b">>), Rel(<<"c">>)>>)
    /\ fs[<<"p", "b">>] = File(GOwn(<<"p", "b">>), ExtNone)
    /\ fs[<<"p", "c">>] = File(GOwn(<<"p", "c">>), ExtNone)
    /\ retval.v["f"] = Sq(<<Sc(3)>>) /\ retval.v["a"] = Sc(1)

-----------------------------------------------------------------------------
(* C5.                                                                     *)

\* C5 as stated, for the loads started without a base directory: a relative
\* extends path is resolved against the directory of the file that declares it.
C5_DeclaringDir ==
    ~call.given => \A j \in DOMAIN stack :
        AtRelEntry(stack[j]) =>
            AbsPath(stack[j].resolved)
                = AbsPath(Join(Dirname(stack[j].abs), EntryPath(CurEntry(stack[j]))))

\* C5 (amended): every relative path of an extends list, of the top-level file or
\* of a parent file in any directory, is resolved against the base directory of
\* the load (the one the caller gave, else the directory of the top-level file),
\* not against the directory of the file that declares the list.
C5_LoadBaseDir ==
    \A j \in DOMAIN stack :
        AtRelEntry(stack[j]) =>
            stack[j].resolved = Join(LoadBase, EntryPath(CurEntry(stack[j])))

\* A parent file in another directory than the top-level file is at a relative entry.
C5_Witness ==
    /\ Len(stack) >= 2 /\ AtRelEntry(stack[2])
    /\ Dirname(stack[2].abs) # Dirname(stack[1].abs)

-----------------------------------------------------------------------------
(* C6.                                                                     *)

\* C6: in a load started without a base directory, every call of the load has
\* base_dir = the directory of the top-level file, and every relative extends
\* path, at any depth, was joined onto that directory.
C6_TopDirEverywhere ==
    ~call.given =>
        \A j \in DOMAIN stack :
            /\ stack[j].base = TopDir
            /\ AtRelEntry(stack[j]) =>
                stack[j].resolved = Join(TopDir, EntryPath(CurEntry(stack[j])))

\* /p/a extends q/b, and /p/q/b extends c: the load looked for /p/c, which is
\* missing, although /p/q/c is there.
C6_Witness ==
    /\ ~call.given /\ status = "error" /\ DOMAIN fs = RFiles
    /\ err = ConfigError("notfound", Path(TRUE, <<"p", "c">>))
    /\ TopAbs = <<"p", "a">>
    /\ fs[<<"p", "q", "b">>].ext = ExtList(<<Rel(<<"c">>)>>)
    /\ IsFile(<<"p", "q", "c">>)

-----------------------------------------------------------------------------
(* C7.                                                                     *)

C7_Inv == status = "running" => visited = StackPaths
C7_Step ==
    (status' # "error" /\ Len(stack') <= Len(stack) /\ <<stack, status>>' # <<stack, status>>) =>
        visited' = IF Len(stack') < Len(stack) THEN Top.entry ELSE visited

\* C7: while extends are being processed the visited set is exactly the set of
\* absolute paths of the calls on the active recursion path; and a step in which
\* a call returns (the call on top of the stack, or a call without extends made
\* and returned within the step) leaves the visited set as it was when that
\* call was entered.
C7_VisitedIsPath == [](C7_Inv) /\ [][C7_Step]_vars

\* Two calls are active and the inner one has had an entry's call return.
C7_Witness == status = "running" /\ Len(stack) >= 2 /\ Top.i >= 1 /\ visited = StackPaths

-----------------------------------------------------------------------------
(* C8.                                                                     *)

\* r is the deep merge of document trees b (base) and o (override).
RECURSIVE IsDeepMerge(_, _, _)
IsDeepMerge(b, o, r) ==
    IF b.t # "map" \/ o.t # "map" THEN r = o
    ELSE
        /\ r.t = "map"
        /\ DOMAIN r.v = DOMAIN b.v \cup DOMAIN o.v
        /\ \A k \in DOMAIN r.v :
            IF k \in DOMAIN b.v /\ k \in DOMAIN o.v /\ b.v[k].t = "map" /\ o.v[k].t = "map"
            THEN IsDeepMerge(b.v[k], o.v[k], r.v[k])
            ELSE IF k \in DOMAIN o.v THEN r.v[k] = o.v[k]
            ELSE r.v[k] = b.v[k]

Merged == Val(mHeap, mRes)

\* C8: the value _deep_merge(base, override) returns is the deep merge of the two
\* trees as they were passed: override if either is no mapping; else a mapping
\* with the keys of both, the recursive merge where both hold a mapping, override's
\* value for every other key of override (a list replaced whole), base's value
\* for the keys only base has; and the example of the tests gives
\* {a:1, b:{c:4, d:3, e:5}, f:6}.
C8_DeepMergeReference ==
    mpc = "done" =>
        /\ IsDeepMerge(mBase, mOver, Merged)
        /\ (mBase = ExampleBase /\ mOver = ExampleOverride) => Merged = ExampleMerged

\* Both arguments hold a list under key "a": the result holds override's list.
C8_Witness ==
    /\ mpc = "done"
    /\ mBase = Doc1("a", Sq(<<Sc(1)>>)) /\ mOver = Doc1("a", Sq(<<Sc(2)>>))
    /\ Merged = Doc1("a", Sq(<<Sc(2)>>))

-----------------------------------------------------------------------------
(* C9.                                                                     *)

\* C9: after _deep_merge(base, override) the two arguments denote the trees they
\* denoted before the call: no dict or list reachable from them was changed.
C9_InputsUnchanged ==
    mpc = "done" => (Val(mHeap, mB) = mBase /\ Val(mHeap, mO) = mOver)

\* The call merged two mappings that share a key holding a mapping on both
\* sides, and returned a mapping that differs from base.
C9_Witness ==
    /\ mpc = "done" /\ mBase.t = "map" /\ mOver.t = "map" /\ mB # mO
    /\ \E k \in DOMAIN mBase.v \cap DOMAIN mOver.v :
        mBase.v[k].t = "map" /\ mOver.v[k].t = "map" /\ mOver.v[k] # EmptyDoc
    /\ Merged # mBase
    /\ mRes # mB

-----------------------------------------------------------------------------
(* Discovery (core.py 139-188) on the chain of directories from the file   *)
(* system's root, dirs[1], down to the start directory, dirs[Len(dirs)].   *)
(* A directory is what it holds under the config file's name (nothing, a   *)
(* file or a directory) and the other names in it.                         *)

\* PROJECT_ROOT_MARKERS (lines 8-14).
Markers == {"pyproject.toml", ".gitignore", ".git", "setup.cfg", "setup.py"}

DirContents ==
    [cfg : {"none", "file", "dir"},
     names : {{"README.md"}, {".git"}, {"README.md", "setup.py"}}]

StartDir == Len(dirs)

\* candidate.is_file() for the candidate in directory i.
IsConfigFile(i) == dirs[i].cfg = "file"

\* any((directory / marker).exists() for marker in markers) (line 152).
HasMarker(i) == \E m \in Markers : m \in dirs[i].names

\* _find_project_root (lines 150-154): the directory itself, then its parents,
\* closest first; 0 is None.
RECURSIVE FindRootUp(_), FindRootDown(_, _)
FindRootUp(i) == IF i = 0 THEN 0 ELSE IF HasMarker(i) THEN i ELSE FindRootUp(i - 1)
FindRootDown(i, n) == IF i > n THEN 0 ELSE IF HasMarker(i) THEN i ELSE FindRootDown(i + 1, n)
find_project_root_farthest(start) == FindRootDown(1, start)
find_project_root(start) == FindRootUp(start)

\* The loop of lines 183-186 over start_path.parents, closest first.
RECURSIVE FirstParentWithFile(_)
FirstParentWithFile(i) ==
    IF i = 0 THEN 0 ELSE IF IsConfigFile(i) THEN i ELSE FirstParentWithFile(i - 1)

Found(i) == [kind |-> "path", dir |-> i]
\* ConfigError "Config file '<name>' not found starting from <start_path>".
NotFound(start) == [kind |-> "ConfigError", dir |-> start]

InitDiscover ==
    /\ LoadIdle
    /\ MergeIdle
    /\ LcIdle
    /\ AccIdle
    /\ reloaded = FALSE
    /\ \E n \in 1..(MaxAncestors + 1) : dirs \in [1..n -> DirContents]
    /\ dpc = "tier1"
    /\ dRoot = 0
    /\ dResult = [kind |-> "none", dir |-> 0]

\* Lines 170-173.
Tier1 ==
    /\ dpc = "tier1"
    /\ IF IsConfigFile(StartDir)
       THEN dpc' = "done" /\ dResult' = Found(StartDir)
       ELSE dpc' = "tier2" /\ UNCHANGED dResult
    /\ UNCHANGED <<dirs, dRoot, loadVars, mergeVars, reloaded, lcVars, accVars>>

\* Lines 175-180.
Tier2 ==
    /\ dpc = "tier2"
    /\ dRoot' = find_project_root(StartDir)
    /\ IF dRoot' # 0 /\ IsConfigFile(dRoot')
       THEN dpc' = "done" /\ dResult' = Found(dRoot')
       ELSE dpc' = "tier3" /\ UNCHANGED dResult
    /\ UNCHANGED <<dirs, loadVars, mergeVars, reloaded, lcVars, accVars>>

\* Lines 182-188.
Tier3 ==
    /\ dpc = "tier3"
    /\ LET i == FirstParentWithFile(StartDir - 1)
       IN  dResult' = IF i # 0 THEN Found(i) ELSE NotFound(StartDir)
    /\ dpc' = "done"
    /\ UNCHANGED <<dirs, dRoot, loadVars, mergeVars, reloaded, lcVars, accVars>>

NextDiscover == Tier1 \/ Tier2 \/ Tier3

SpecDiscover == InitDiscover /\ [][NextDiscover]_vars

-----------------------------------------------------------------------------
(* C10.                                                                    *)

Max(S) == CHOOSE x \in S : \A y \in S : y <= x
RootDirs == {i \in 1..StartDir : dirs[i].names \cap Markers # {}}
FileDirs == {i \in 1..StartDir : dirs[i].cfg = "file"}

\* C10: discovery returns the start directory's file when it is a file; else the
\* project root's file when a project root (the closest directory, from the
\* start upwards, that holds a marker) exists and holds the file, even if a
\* closer ancestor holds the file too; else the file of the closest ancestor
\* that holds it, above the project root included; and it raises the
\* ConfigError naming the start directory exactly when no directory holds it.
C10_TierOrder ==
    dpc = "done" =>
        IF StartDir \in FileDirs THEN dResult = Found(StartDir)
        ELSE IF RootDirs # {} /\ Max(RootDirs) \in FileDirs THEN dResult = Found(Max(RootDirs))
        ELSE IF FileDirs # {} THEN dResult = Found(Max(FileDirs))
        ELSE dResult = NotFound(StartDir)

\* The project root's file was returned although a closer ancestor holds the file.
C10_Witness ==
    /\ dpc = "done" /\ dResult.kind = "path" /\ dResult.dir = dRoot
    /\ \E i \in FileDirs : i > dRoot /\ i < StartDir

-----------------------------------------------------------------------------
(* DictToObj (core.py 22-106).  An accessor is an object with identity;    *)
(* aHeap[i] is the __dict__ of object i, a function from field names to    *)
(* values.  A value is a scalar, a reference Ref(i) to accessor i, a list  *)
(* Sq(items) or a raw dict Mp(f); lists and raw dicts are written inline,  *)
(* as the model never changes one in place.                                *)

\* _max_depth's default (line 73).
DefaultMaxDepth == 100

\* The strings _to_dict returns in place of a node (lines 79 and 83).
DepthMarker == [t |-> "str", v |-> "<Max depth exceeded>"]
CircularMarker == [t |-> "str", v |-> "<Circular reference>"]

\* DictToObj(d) for a mapping d on heap h (lines 29-36): [ok, h, r], where ok is
\* FALSE when setattr raised TypeError (a key that is no string) and r is the
\* new object.  A dict held by a field, or by a list that a field holds, is
\* converted; every other value is stored as it is.
RECURSIVE Construct(_, _), ConstructFields(_, _, _, _), ConstructItems(_, _, _)
Construct(h, d) ==
    LET a == ConstructFields(h, d.v, KeysOf(d.v), EmptyMap)
    IN  IF a.ok THEN [ok |-> TRUE, h |-> Append(a.h, a.r), r |-> Len(a.h) + 1]
        ELSE [ok |-> FALSE, h |-> h, r |-> 0]
ConstructFields(h, f, ks, acc) ==
    IF ks = <<>> THEN [ok |-> TRUE, h |-> h, r |-> acc]
    ELSE
        LET key == Head(ks)
            value == f[key]
        IN  IF ~IsStrKey(key) THEN [ok |-> FALSE, h |-> h, r |-> acc]
            ELSE IF value.t = "map" THEN
                LET c == Construct(h, value)
                IN  IF c.ok THEN ConstructFields(c.h, f, Tail(ks), Put(acc, key, Ref(c.r)))
                    ELSE [ok |-> FALSE, h |-> h, r |-> acc]
            ELSE IF value.t = "seq" THEN
                LET c == ConstructItems(h, value.v, <<>>)
                IN  IF c.ok THEN ConstructFields(c.h, f, Tail(ks), Put(acc, key, Sq(c.r)))
                    ELSE [ok |-> FALSE, h |-> h, r |-> acc]
            ELSE ConstructFields(h, f, Tail(ks), Put(acc, key, value))
ConstructItems(h, items, acc) ==
    IF items = <<>> THEN [ok |-> TRUE, h |-> h, r |-> acc]
    ELSE IF Head(items).t = "map" THEN
        LET c == Construct(h, Head(items))
        IN  IF c.ok THEN ConstructItems(c.h, Tail(items), Append(acc, Ref(c.r)))
            ELSE [ok |-> FALSE, h |-> h, r |-> acc]
    ELSE ConstructItems(h, Tail(items), Append(acc, Head(items)))

\* The names hasattr finds on every DictToObj whatever its fields: the methods
\* of the class (lines 25-73) and the attributes of object.
ClassAttrs ==
    {"get", "_to_dict", "__init__", "__getitem__", "__setitem__", "__getattr__",
     "__contains__", "__repr__", "__str__", "__class__", "__dict__"}

\* key in x (lines 54-56): hasattr(x, key).
contains(h, x, key) == key \in DOMAIN h[x] \/ key \in ClassAttrs

\* setattr(x, key, value) (lines 42-44, and plain attribute assignment).
setattr(h, x, key, value) == [h EXCEPT ![x] = Put(h[x], key, value)]

\* _current_depth > _max_depth (line 78).
DepthExceededAt(depth, max_depth) == depth >= max_depth
DepthExceeded(depth, max_depth) == depth > max_depth

\* What a node found in _seen is replaced by (line 83).
OnRevisitEmpty == EmptyDoc
OnRevisit == CircularMarker

\* _seen.add, _seen.copy, _seen.discard (lines 85, 92, 95, 104).  A copy is a new
\* set: what the callee does to it does not reach the caller's set.
SeenAdd(seen, x) == seen \cup {x}
SeenCopy(seen) == seen
SeenDiscard(seen, x) == seen \ {x}

\* _to_dict with one set that every call shares and none removes from: a node
\* is replaced by the marker once it was flattened anywhere before.
RECURSIVE SeenForever(_, _, _, _, _), SeenForeverFields(_, _, _, _, _, _, _),
          SeenForeverItems(_, _, _, _, _, _)
SeenForever(h, x, seen, max_depth, depth) ==
    IF DepthExceeded(depth, max_depth) THEN [r |-> DepthMarker, seen |-> seen]
    ELSE IF x \in seen THEN [r |-> OnRevisit, seen |-> seen]
    ELSE LET a == SeenForeverFields(h, h[x], KeysOf(h[x]), SeenAdd(seen, x), max_depth, depth,
                                    EmptyMap)
         IN  [r |-> Mp(a.r), seen |-> a.seen]
SeenForeverFields(h, f, ks, seen, max_depth, depth, acc) ==
    IF ks = <<>> THEN [r |-> acc, seen |-> seen]
    ELSE
        LET value == f[Head(ks)]
            a == IF value.t = "ref" THEN SeenForever(h, value.v, seen, max_depth, depth + 1)
                 ELSE IF value.t = "seq" THEN
                    LET b == SeenForeverItems(h, value.v, seen, max_depth, depth, <<>>)
                    IN  [r |-> Sq(b.r), seen |-> b.seen]
                 ELSE [r |-> value, seen |-> seen]
        IN  SeenForeverFields(h, f, Tail(ks), a.seen, max_depth, depth, Put(acc, Head(ks), a.r))
SeenForeverItems(h, items, seen, max_depth, depth, acc) ==
    IF items = <<>> THEN [r |-> acc, seen |-> seen]
    ELSE
        LET a == IF Head(items).t = "ref"
                 THEN SeenForever(h, Head(items).v, seen, max_depth, depth + 1)
                 ELSE [r |-> Head(items), seen |-> seen]
        IN  SeenForeverItems(h, Tail(items), a.seen, max_depth, depth, Append(acc, a.r))
to_dict_seen_forever(h, x, seen, max_depth, depth) ==
    [r |-> SeenForever(h, x, seen, max_depth, depth).r, seen |-> seen]

\* A list is copied as it is, the accessors in it included.
FlattenItemsRaw(h, items, own, max_depth, depth) == items

\* x._to_dict(seen, max_depth, depth) (lines 73-106): [r |-> the value returned,
\* seen |-> the set passed in, as the call leaves it].
RECURSIVE to_dict(_, _, _, _, _), FlattenFields(_, _, _, _, _, _, _), FlattenItems(_, _, _, _, _)
to_dict(h, x, seen, max_depth, depth) ==
    IF DepthExceeded(depth, max_depth) THEN [r |-> DepthMarker, seen |-> seen]
    ELSE IF x \in seen THEN [r |-> OnRevisit, seen |-> seen]
    ELSE LET own == SeenAdd(seen, x)
             result == FlattenFields(h, h[x], KeysOf(h[x]), own, max_depth, depth, EmptyMap)
         IN  [r |-> Mp(result), seen |-> SeenDiscard(own, x)]
\* The loop of lines 90-100 over the fields ks of object x, whose set is own.
FlattenFields(h, f, ks, own, max_depth, depth, acc) ==
    IF ks = <<>> THEN acc
    ELSE
        LET value == f[Head(ks)]
            out == IF value.t = "ref"
                   THEN to_dict(h, value.v, SeenCopy(own), max_depth, depth + 1).r
                   ELSE IF value.t = "seq"
                   THEN Sq(FlattenItems(h, value.v, own, max_depth, depth))
                   ELSE value
        IN  FlattenFields(h, f, Tail(ks), own, max_depth, depth, Put(acc, Head(ks), out))
\* The list comprehension of lines 94-98.
FlattenItems(h, items, own, max_depth, depth) ==
    [i \in 1..Len(items) |->
        IF items[i].t = "ref"
        THEN to_dict(h, items[i].v, SeenCopy(own), max_depth, depth + 1).r
        ELSE items[i]]

-----------------------------------------------------------------------------
(* SpecAccessor: an accessor is constructed, the caller writes attributes  *)
(* (values that hold accessors of the same graph, so that nodes get shared *)
(* and cycles appear), tests containment and flattens.                     *)

\* The attribute writes of one behaviour.
MaxWrites == 2

\* n mappings nested under key "a" below the top-level one.
RECURSIVE DeepChain(_)
DeepChain(n) == IF n = 0 THEN EmptyDoc ELSE Doc1("a", DeepChain(n - 1))

\* The values DictToObj is called with; the last is no mapping.
AccInputs ==
    {EmptyDoc, Doc1("a", Sc(1)), Doc1("get", Sc(1)), Doc1(IntKey, Sc(1)),
     Doc1("a", Doc1("b", Sc(1))), DeepChain(2), Doc2("a", EmptyDoc, "b", EmptyDoc),
     Doc1("a", Sq(<<Doc1("b", Sc(1)), Sc(2)>>)),
     Doc1("a", Sq(<<Sq(<<Doc1("b", Sc(1))>>)>>)),
     Doc1("a", Doc1(IntKey, Sc(1))),
     Doc2("a", Doc1("b", Sq(<<Sc(1), EmptyDoc>>)), "c", Sq(<<>>)),
     Doc2("a", Sq(<<Doc1("b", Doc1("c", Sc(0))), Sq(<<>>)>>), "b", Sc(2)),
     Sq(<<Sc(1)>>)}

WriteKeys == {"r"}
WriteValues(h) ==
    {Sc(9)} \cup {Ref(j) : j \in 1..Len(h)} \cup {Sq(<<Ref(j), Ref(j)>>) : j \in 1..Len(h)}
ProbeKeys == {"a", "r", "get", "zz"}
DepthLimits == {0, 1, 2, DefaultMaxDepth}

InitAccessor ==
    /\ LoadIdle
    /\ MergeIdle
    /\ DiscIdle
    /\ LcIdle
    /\ reloaded = FALSE
    /\ aIn \in AccInputs
    /\ aLeft = MaxWrites
    /\ aHeap = <<>>
    /\ aRoot = 0
    /\ apc = "new"
    /\ aOut = NoRead

\* x = DictToObj(aIn) (lines 25-36).
New ==
    /\ apc = "new"
    /\ IF aIn.t # "map" THEN
            apc' = "failed" /\ UNCHANGED <<aHeap, aRoot>>
       ELSE LET c == Construct(<<>>, aIn)
            IN  IF c.ok THEN apc' = "live" /\ aHeap' = c.h /\ aRoot' = c.r
                ELSE apc' = "failed" /\ UNCHANGED <<aHeap, aRoot>>
    /\ UNCHANGED <<aIn, aLeft, aOut, loadVars, mergeVars, discVars, reloaded, lcVars>>

\* y.key = value or y[key] = value for an accessor y of the graph (lines 42-44).
SetAttr ==
    /\ apc = "live"
    /\ aLeft > 0
    /\ \E y \in 1..Len(aHeap), key \in WriteKeys, value \in WriteValues(aHeap) :
        aHeap' = setattr(aHeap, y, key, value)
    /\ aLeft' = aLeft - 1
    /\ aOut' = NoRead
    /\ UNCHANGED <<aIn, aRoot, apc, loadVars, mergeVars, discVars, reloaded, lcVars>>

\* key in x (lines 54-56).
Contains ==
    /\ apc = "live"
    /\ \E key \in ProbeKeys :
        aOut' = [op |-> "in", key |-> key, r |-> contains(aHeap, aRoot, key)]
    /\ UNCHANGED <<aIn, aHeap, aRoot, aLeft, apc, loadVars, mergeVars, discVars, reloaded,
                   lcVars>>

\* x._to_dict(_max_depth=max_depth) (lines 73-106).
ToDict ==
    /\ apc = "live"
    /\ \E max_depth \in DepthLimits :
        LET a == to_dict(aHeap, aRoot, {}, max_depth, 0)
        IN  aOut' = [op |-> "to_dict", max |-> max_depth, r |-> a.r, seen |-> a.seen]
    /\ UNCHANGED <<aIn, aHeap, aRoot, aLeft, apc, loadVars, mergeVars, discVars, reloaded,
                   lcVars>>

NextAccessor == New \/ SetAttr \/ Contains \/ ToDict

SpecAccessor == InitAccessor /\ [][NextAccessor]_vars

-----------------------------------------------------------------------------
(* C11.                                                                    *)

\* The fields set on x, by construction or by a later write.
Fields(x) == DOMAIN aHeap[x]

\* C11 as stated: k in x is true if and only if k is a field set on x; it is
\* false for every name never set, the names of the methods (get) included.
C11_ContainsIffSet ==
    aOut.op = "in" => (aOut.r <=> aOut.key \in Fields(aRoot))

-----------------------------------------------------------------------------
(* C13.                                                                    *)

\* No raw mapping is in value v or in a list in it.
RECURSIVE NoRawMapping(_)
NoRawMapping(v) ==
    IF v.t = "map" THEN FALSE
    ELSE IF v.t = "seq" THEN \A i \in 1..Len(v.v) : NoRawMapping(v.v[i])
    ELSE TRUE

\* C13 as stated: after construction no raw mapping is reachable from the
\* accessor: every mapping nested in mappings, in sequences and in sequences
\* nested in sequences was converted.
C13_NoRawMapping ==
    apc = "live" =>
        \A x \in 1..Len(aHeap) : \A k \in Fields(x) : NoRawMapping(aHeap[x][k])

-----------------------------------------------------------------------------
(* C12.                                                                    *)

\* What flattening node x must give when path holds the nodes being flattened
\* above it: the two functions differ in which guard is asked first where x is
\* on the path and deeper than the limit.
RECURSIVE FlatCycleFirst(_, _, _, _, _), FlatDepthFirst(_, _, _, _, _)
FlatCycleFirst(h, x, path, max_depth, depth) ==
    IF x \in path THEN CircularMarker
    ELSE IF depth > max_depth THEN DepthMarker
    ELSE Mp([k \in DOMAIN h[x] |->
            LET v == h[x][k]
            IN  IF v.t = "ref" THEN FlatCycleFirst(h, v.v, path \cup {x}, max_depth, depth + 1)
                ELSE IF v.t = "seq" THEN
                    Sq([i \in 1..Len(v.v) |->
                        IF v.v[i].t = "ref"
                        THEN FlatCycleFirst(h, v.v[i].v, path \cup {x}, max_depth, depth + 1)
                        ELSE v.v[i]])
                ELSE v])
FlatDepthFirst(h, x, path, max_depth, depth) ==
    IF depth > max_depth THEN DepthMarker
    ELSE IF x \in path THEN CircularMarker
    ELSE Mp([k \in DOMAIN h[x] |->
            LET v == h[x][k]
            IN  IF v.t = "ref" THEN FlatDepthFirst(h, v.v, path \cup {x}, max_depth, depth + 1)
                ELSE IF v.t = "seq" THEN
                    Sq([i \in 1..Len(v.v) |->
                        IF v.v[i].t = "ref"
                        THEN FlatDepthFirst(h, v.v[i].v, path \cup {x}, max_depth, depth + 1)
                        ELSE v.v[i]])
                ELSE v])

\* C12 as stated: flattening a graph with cycles made by attribute writes ends,
\* and its output holds "<Circular reference>" at each place where a node
\* already on the active path is reached again.
C12_MarkerAtEachRevisit ==
    /\ apc = "live" => ENABLED ToDict
    /\ aOut.op = "to_dict" => aOut.r = FlatCycleFirst(aHeap, aRoot, {}, aOut.max, 0)

\* C12 (amended): flattening a graph with cycles made by attribute writes ends,
\* and its output holds "<Circular reference>" at each place where a node
\* already on the active path is reached again at a depth that does not exceed
\* the depth limit; a node reached at depth limit + 1 is replaced by "<Max depth
\* exceeded>" whether it is on the path or not.
C12_MarkerWithinDepth ==
    /\ apc = "live" => ENABLED ToDict
    /\ aOut.op = "to_dict" => aOut.r = FlatDepthFirst(aHeap, aRoot, {}, aOut.max, 0)

\* a.r = b; b.r = a for the accessors a and b of fields "a" and "b": the
\* flattened root holds the marker where a is reached again below b.
C12_Witness ==
    /\ aOut.op = "to_dict" /\ aOut.max = DefaultMaxDepth
    /\ aIn = Doc2("a", EmptyDoc, "b", EmptyDoc)
    /\ aHeap[1] = Doc1("r", Ref(2)).v /\ aHeap[2] = Doc1("r", Ref(1)).v
    /\ aOut.r.v["a"] = Doc1("r", Doc1("r", CircularMarker))

-----------------------------------------------------------------------------
(* C17.                                                                    *)

\* out is a flattening of node x below the nodes of path in which the circular
\* marker stands for x only if x is on path, and x is flattened in full (a
\* mapping with its fields, each flattened likewise) if it is not on path and
\* within the depth limit.
RECURSIVE PathScoped(_, _, _, _, _, _)
PathScoped(h, x, path, out, max_depth, depth) ==
    /\ out = CircularMarker => x \in path
    /\ (x \notin path /\ depth <= max_depth) =>
        /\ out.t = "map"
        /\ DOMAIN out.v = DOMAIN h[x]
        /\ \A k \in DOMAIN h[x] :
            LET v == h[x][k]
            IN  IF v.t = "ref"
                THEN PathScoped(h, v.v, path \cup {x}, out.v[k], max_depth, depth + 1)
                ELSE IF v.t = "seq" THEN
                    /\ out.v[k].t = "seq"
                    /\ Len(out.v[k].v) = Len(v.v)
                    /\ \A i \in 1..Len(v.v) :
                        IF v.v[i].t = "ref"
                        THEN PathScoped(h, v.v[i].v, path \cup {x}, out.v[k].v[i],
                                        max_depth, depth + 1)
                        ELSE out.v[k].v[i] = v.v[i]
                ELSE out.v[k] = v

\* C17: the cycle guard is scoped to the path: a node reached through two
\* different paths (the value of two fields, or twice in a list) is flattened
\* in full at both places, the marker "<Circular reference>" stands only where a
\* node is its own ancestor on the current path, and the set the call was given
\* holds afterwards what it held before.
C17_PathScopedGuard ==
    aOut.op = "to_dict" =>
        /\ PathScoped(aHeap, aRoot, {}, aOut.r, aOut.max, 0)
        /\ aOut.seen = {}

\* The accessor of field "a" was also written to field "r" of the root, and
\* holds itself twice in a list: the root's two fields hold it flattened in
\* full, and the marker stands only in the list, where it is its own ancestor.
C17_Witness ==
    /\ aOut.op = "to_dict" /\ aOut.max = DefaultMaxDepth
    /\ aIn = Doc1("a", Doc1("b", Sc(1)))
    /\ aHeap[aRoot] = Doc2("a", Ref(1), "r", Ref(1)).v
    /\ aHeap[1] = Doc2("b", Sc(1), "r", Sq(<<Ref(1), Ref(1)>>)).v
    /\ aOut.r.v["a"] = aOut.r.v["r"]
    /\ aOut.r.v["a"] = Doc2("b", Sc(1), "r", Sq(<<CircularMarker, CircularMarker>>))

-----------------------------------------------------------------------------
(* C18.                                                                    *)

\* The flattening of the accessor built from mapping d (found at depth depth)
\* with every accessor below the depth limit cut off.
RECURSIVE CutAt(_, _, _)
CutAt(d, max_depth, depth) ==
    IF depth > max_depth THEN DepthMarker
    ELSE Mp([k \in DOMAIN d.v |->
            LET v == d.v[k]
            IN  IF v.t = "map" THEN CutAt(v, max_depth, depth + 1)
                ELSE IF v.t = "seq" THEN
                    Sq([i \in 1..Len(v.v) |->
                        IF v.v[i].t = "map" THEN CutAt(v.v[i], max_depth, depth + 1)
                        ELSE v.v[i]])
                ELSE v])

\* The depth of the deepest accessor built from mapping d, which is at depth.
RECURSIVE AccDepth(_, _)
AccDepth(d, depth) ==
    LET below ==
            {AccDepth(d.v[k], depth + 1) : k \in {k \in DOMAIN d.v : d.v[k].t = "map"}}
                \cup UNION {{AccDepth(d.v[k].v[i], depth + 1) :
                                i \in {i \in 1..Len(d.v[k].v) : d.v[k].v[i].t = "map"}} :
                            k \in {k \in DOMAIN d.v : d.v[k].t = "seq"}}
    IN  IF below = {} THEN depth ELSE Max(below)

\* The depth marker is somewhere in flattened value v.
RECURSIVE HasDepthMarker(_)
HasDepthMarker(v) ==
    \/ v = DepthMarker
    \/ v.t = "map" /\ \E k \in DOMAIN v.v : HasDepthMarker(v.v[k])
    \/ v.t = "seq" /\ \E i \in 1..Len(v.v) : HasDepthMarker(v.v[i])

\* No attribute was written since construction.
AsConstructed == apc = "live" /\ aHeap = Construct(<<>>, aIn).h

\* C18: with depth limit M (the root at depth 0), _to_dict flattens every
\* accessor at depth <= M and replaces each accessor at depth M + 1 by "<Max
\* depth exceeded>" without descending; so the flattening of a constructed
\* (acyclic) accessor holds the depth marker exactly when an accessor of it is
\* deeper than M.
C18_DepthLimit ==
    (aOut.op = "to_dict" /\ AsConstructed) =>
        /\ aOut.r = CutAt(aIn, aOut.max, 0)
        /\ HasDepthMarker(aOut.r) <=> AccDepth(aIn, 0) > aOut.max

\* Three nested levels flattened with limit 1: the accessor at depth 2 is replaced.
C18_Witness ==
    /\ aOut.op = "to_dict" /\ AsConstructed /\ aOut.max = 1
    /\ aIn = DeepChain(2)
    /\ aOut.r = Doc1("a", Doc1("a", DepthMarker))

-----------------------------------------------------------------------------
(* C16.                                                                    *)

\* C16: _deep_merge(X, X) equals X for every mapping X, whether the two
\* arguments are one object or two objects that hold equal values.
C16_Idempotent ==
    (mpc = "done" /\ mBase.t = "map" /\ mOver = mBase) => Merged = mBase

\* X holds a mapping under a key, or a list, and was merged with itself: as one
\* object passed twice, and as two equal objects.
C16_Witness ==
    /\ mpc = "done" /\ mOver = mBase /\ Merged = mBase
    /\ mBase \in {Doc1("a", Doc1("b", Sc(1))), Doc1("a", Sq(<<Sc(1)>>))}
    /\ mB = mO

-----------------------------------------------------------------------------
(* C15.                                                                    *)

\* The file's only field is extends: [X].
OnlyExtends(doc, extends) == doc = EmptyDoc /\ Len(extends) = 1 /\ extends[1].str

\* X's resolved mapping: what loading X with the load's base directory returns.
Resolved(extends) == RefLoad(AbsPath(resolve_config_path(EntryPath(extends[1]), LoadBase)).parts)

\* C15: a file whose only field is extends: [X] loads to X's resolved mapping
\* (X loaded with the same base directory), also when X has extends itself:
\* the top-level file returns it, and so does every such file loaded on the way
\* once X's load has returned.
C15_OnlyExtends ==
    /\ (status = "ok" /\ fs[TopAbs].ext.t = "list" /\ OnlyExtends(fs[TopAbs].doc, fs[TopAbs].ext.v))
            => retval = Resolved(fs[TopAbs].ext.v)
    /\ status = "running" =>
        \A j \in DOMAIN stack :
            (OnlyExtends(stack[j].config, stack[j].extends) /\ Completed(j) = 1)
                => FinalConfig(stack[j]) = Resolved(stack[j].extends)

\* /p/a holds only extends: [q/b], /p/q/b extends c, and the load returned the
\* fields of b over those of c.
C15_Witness ==
    /\ status = "ok" /\ DOMAIN fs = RFiles /\ TopAbs = <<"p", "a">>
    /\ fs[TopAbs] = File(EmptyDoc, ExtList(<<Rel(<<"q", "b">>)>>))
    /\ fs[<<"p", "q", "b">>].ext = ExtList(<<Rel(<<"c">>)>>)
    /\ retval = Doc2("b", Sc(3), "c", Sc(2))

-----------------------------------------------------------------------------
(* C19.                                                                    *)

\* The file systems of SpecLive: those of family (1) with files that hold no
\* field but extends (whether a load ends does not depend on the other fields),
\* and the diamond of such files.
LContents(f, n) ==
    (IF n = 0
     THEN {Missing, Unreadable, BadYaml, File(Sq(<<Sc(1)>>), ExtNone), File(Sq(<<>>), ExtNone),
           File(EmptyDoc, ExtNone), File(EmptyDoc, ExtStr)}
     ELSE {})
        \cup {File(EmptyDoc, ExtList(es)) : es \in [1..n -> GEntries]}

InitLive ==
    /\ \/ InitGeneralOf(LContents)
       \/ /\ fs = DiamondFS(EmptyDoc, EmptyDoc, EmptyDoc, EmptyDoc)
          /\ call = CallOf(Path(FALSE, <<"d">>))
    /\ stack = <<>>
    /\ visited = {}
    /\ status = "idle"
    /\ retval = EmptyDoc
    /\ err = NoErr
    /\ MergeIdle
    /\ DiscIdle
    /\ LcIdle
    /\ AccIdle
    /\ reloaded = FALSE

\* The loader is one synchronous call: once started it takes its next step
\* until it returns or raises.
SpecLive == InitLive /\ [][Next]_vars /\ WF_vars(Next)

\* The distinct absolute paths of the files there are.
FilePaths == {f \in DOMAIN fs : IsFile(f)}

\* The calls that are active are those of the stack, which are calls of
\* distinct files; a call made from the top of the stack is at depth Len(stack)
\* (the top-level call is at depth 0).
C19_Depth ==
    /\ Len(stack) <= Cardinality(FilePaths)
    /\ \A i, j \in DOMAIN stack : stack[i].abs = stack[j].abs => i = j
    /\ StackPaths \subseteq {Path(TRUE, f) : f \in FilePaths}
C19_Step ==
    Len(stack') > Len(stack) => (Top'.abs \notin visited /\ Top'.abs \in visited')

\* C19: whatever the files and their extends graph, cyclic or not, a call of
\* _load_config_file ends, with a mapping or with an error; the depth of the
\* recursion (the top-level call at depth 0) never exceeds the number of
\* distinct absolute file paths, as every nested load that does not fail adds a
\* path that was not in the visited set.
C19_Terminates == [](C19_Depth) /\ [][C19_Step]_vars /\ <>Done

\* The load of a cycle through three files went three calls deep and ended.
C19_Witness ==
    /\ status = "error" /\ err.kind = "circular" /\ visited = {Path(TRUE, f) : f \in GFiles}
    /\ Cardinality(FilePaths) = 3

-----------------------------------------------------------------------------
(* load_config (core.py 273-282): discovery from the working directory,    *)
(* the load of the file it finds, and the construction of the accessor.    *)
(* The directory chain is the root and the working directory; directory i  *)
(* of the chain holds the config file fs has at its path.                  *)

\* DEFAULT_CONFIG_FILENAME (line 7).
DEFAULT_CONFIG_FILENAME == "config.yaml"

\* The path of directory i of the chain, and str(config_path) for the
\* candidate in it.
DirPath(i) == SubSeq(Cwd, 1, i - 1)
ConfigPath(i) == Path(TRUE, Append(DirPath(i), DEFAULT_CONFIG_FILENAME))

\* The ConfigError of line 188, as load_config sees it.
DiscoveryError(r) == ConfigError("discovery", Path(TRUE, DirPath(r.dir)))

\* The TypeError of setattr with a key that is no string (lines 31-36).
ConstructError(p) == OtherError("TypeError", p)

\* ConfigError(f"Unexpected error loading config: {e}") (line 282).
Wrapped(e) == [cls |-> "ConfigError", kind |-> "wrapped", path |-> e.path]

\* What an exception e raised inside the try block leaves load_config as
\* (lines 279-282).
HandleRaw(e) == e
Handle(e) == IF e.cls = "ConfigError" THEN e ELSE Wrapped(e)

Raised(e) == [k |-> "raise", err |-> e]
Returned(x) == [k |-> "return", obj |-> x]

\* What the config file of a directory may hold.
LcContents ==
    {Unreadable, BadYaml,
     File(Sq(<<Sc(1)>>), ExtNone), File(Sc(1), ExtNone), File(Sc(0), ExtNone),
     File(EmptyDoc, ExtNone), File(Doc1("a", Sc(1)), ExtNone),
     File(Doc1(IntKey, Sc(1)), ExtNone), File(Doc1("a", Doc1(IntKey, Sc(1))), ExtNone),
     File(EmptyDoc, ExtStr), File(EmptyDoc, ExtList(<<EntryInt>>)),
     File(Doc1("a", Sc(1)), ExtList(<<Rel(<<"b">>)>>)),
     File(EmptyDoc, ExtList(<<Rel(<<DEFAULT_CONFIG_FILENAME>>)>>)),
     File(EmptyDoc, ExtList(<<Rel(<<"zz">>)>>))}
\* What the file b next to it may hold.
LcExtended ==
    {Missing, BadYaml, File(Sq(<<Sc(1)>>), ExtNone), File(Doc1("b", Sc(2)), ExtNone),
     File(Doc1(IntKey, Sc(2)), ExtNone)}
LcNames == {{"README.md"}, {".git"}}
\* A directory of the chain and the config file in it.
LcDirs ==
    {[dir |-> [cfg |-> "file", names |-> ns], file |-> c] : ns \in LcNames, c \in LcContents}
        \cup {[dir |-> [cfg |-> k, names |-> ns], file |-> Missing] :
                    ns \in LcNames, k \in {"none", "dir"}}
LcFiles == {Append(DirPath(i), n) : i \in 1..(Len(Cwd) + 1), n \in {DEFAULT_CONFIG_FILENAME, "b"}}
LcFS(ds, b) ==
    [f \in LcFiles |-> IF f[Len(f)] = "b" THEN b ELSE ds[Len(f)].file]

InitLoadConfig ==
    /\ \E ds \in [1..(Len(Cwd) + 1) -> LcDirs], b \in LcExtended :
            /\ dirs = [i \in DOMAIN ds |-> ds[i].dir]
            /\ fs = LcFS(ds, b)
    /\ call = <<>>
    /\ stack = <<>>
    /\ visited = {}
    /\ status = "off"
    /\ retval = EmptyDoc
    /\ err = NoErr
    /\ dpc = "tier1"
    /\ dRoot = 0
    /\ dResult = [kind |-> "none", dir |-> 0]
    /\ lcpc = "discover"
    /\ lcOut = <<>>
    /\ MergeIdle
    /\ AccIdle
    /\ reloaded = FALSE

\* Lines 275-276 once discovery has ended: its ConfigError leaves load_config
\* through line 280, its path is given to _load_config_file.
Discovered ==
    /\ lcpc = "discover"
    /\ dpc = "done"
    /\ IF dResult.kind = "path" THEN
            /\ call' = [path |-> ConfigPath(dResult.dir), given |-> FALSE, base |-> NoPath]
            /\ status' = "idle"
            /\ lcpc' = "load"
            /\ UNCHANGED lcOut
       ELSE
            /\ lcOut' = Raised(Handle(DiscoveryError(dResult)))
            /\ lcpc' = "done"
            /\ UNCHANGED <<call, status>>
    /\ UNCHANGED <<fs, stack, visited, retval, err, mergeVars, discVars, reloaded, accVars>>

\* The end of load_config once _load_config_file has ended: its exception
\* goes through lines 279-282, its mapping is given to DictToObj (line 278),
\* whose exception goes through them too.
Deliver ==
    /\ lcpc = "load"
    /\ Done
    /\ lcpc' = "done"
    /\ IF status = "error" THEN
            /\ lcOut' = Raised(Handle(err))
            /\ UNCHANGED accVars
       ELSE
            \E c \in {Construct(<<>>, retval)} :
                IF c.ok THEN
                    /\ lcOut' = Returned(c.r)
                    /\ aIn' = retval
                    /\ aHeap' = c.h
                    /\ aRoot' = c.r
                    /\ apc' = "live"
                    /\ UNCHANGED <<aLeft, aOut>>
                ELSE
                    /\ lcOut' = Raised(Handle(ConstructError(call.path)))
                    /\ UNCHANGED accVars
    /\ UNCHANGED <<loadVars, mergeVars, discVars, reloaded>>

NextLoadConfig == Tier1 \/ Tier2 \/ Tier3 \/ Discovered \/ Load \/ Extend \/ Finish \/ Deliver

SpecLoadConfig == InitLoadConfig /\ [][NextLoadConfig]_vars

-----------------------------------------------------------------------------
(* C14.                                                                    *)

\* The file discovery found is a document that is no mapping.
NoMappingFound ==
    /\ dResult.kind = "path"
    /\ LET c == fs[ConfigPath(dResult.dir).parts]
       IN  c.kind = "doc" /\ c.doc.t # "map" /\ ~(c.ext.t = "none" /\ Falsy(c.doc))

\* C14: every failure of load_config leaves it as a ConfigError: the
\* ConfigError of discovery or of the loader leaves it as it was raised, every
\* other exception of the load (a top-level document that is a sequence or a
\* scalar) or of the accessor's construction leaves it wrapped in the
\* ConfigError "Unexpected error loading config"; and an accessor is returned
\* only for the mapping of a load that succeeded.
C14_AllConfigError ==
    lcpc = "done" =>
        /\ lcOut.k \in {"raise", "return"}
        /\ lcOut.k = "raise" => lcOut.err.cls = "ConfigError"
        /\ dResult.kind = "ConfigError" =>
                status = "off" /\ lcOut = Raised(DiscoveryError(dResult))
        /\ (status = "error" /\ err.cls = "ConfigError") => lcOut = Raised(err)
        /\ (status = "error" /\ err.cls # "ConfigError") =>
                lcOut = Raised(Wrapped(err)) /\ lcOut.err # err
        /\ NoMappingFound => (lcOut.k = "raise" /\ lcOut.err.kind = "wrapped")
        /\ status = "ok" =>
                IF Construct(<<>>, retval).ok
                THEN lcOut.k = "return" /\ apc = "live" /\ aRoot = lcOut.obj /\ aIn = retval
                ELSE lcOut = Raised(Wrapped(ConstructError(call.path))) /\ apc = "off"
        /\ lcOut.k = "return" => status = "ok"

\* Discovery found in the root a file that holds a sequence: the loader's
\* TypeError left load_config wrapped.
C14_Witness ==
    /\ lcpc = "done" /\ dResult.kind = "path" /\ dResult.dir = 1
    /\ fs[<<DEFAULT_CONFIG_FILENAME>>] = File(Sq(<<Sc(1)>>), ExtNone)
    /\ err = OtherError("TypeError", ConfigPath(1))
    /\ lcOut = Raised(Wrapped(err))

-----------------------------------------------------------------------------
(* C20.                                                                    *)

SpecReuse == InitLive /\ [][NextReuse]_vars

\* The absolute path of the file the error is about.
ErrAbs(e) == AbsPath(e.path)

\* A step in which the load fails: an error found before the path is added
\* leaves the set as it was, an error found after adds the failing file, and in
\* both cases every file of an active call stays in the set.
C20_Fail ==
    (status # "error" /\ status' = "error") =>
        /\ err'.kind \in {"circular", "notfound", "entry_type"} => visited' = visited
        /\ err'.kind \in {"yaml", "read", "extends_type", "unexpected"} =>
                /\ ErrAbs(err') \notin visited
                /\ visited' = visited \cup {ErrAbs(err')}
        /\ StackPaths \subseteq visited'
        /\ Len(stack) > 0 => visited' # {}

\* The later load of a file that was left in the set fails at once with a
\* circular dependency, and leaves the set as it is.
C20_Again ==
    (~reloaded /\ reloaded' /\ AbsPath(call'.path) \in visited) =>
        /\ status' = "error"
        /\ err' = CircularError(call'.path, AbsPath(call'.path))
        /\ visited' = visited

\* C20: when _load_config_file fails, the caller's visited set is not
\* restored: a failure found before the path is added (circular dependency,
\* file not found) leaves the set as it was at that point, every file of the
\* active recursion path that was added (the file that failed to parse or
\* whose extends is no list included) is still in the set afterwards, and a
\* later load with the same set reports a circular dependency for such a file.
C20_SetNotRestored == [][C20_Fail /\ C20_Again]_vars

\* a extends b and b is no valid YAML: the load failed and left both in the
\* set, and the later load of a, which is on no cycle, was refused as circular.
C20_Witness ==
    /\ reloaded /\ status = "error" /\ err = ConfigError("circular", Path(TRUE, <<"p", "a">>))
    /\ visited = {Path(TRUE, <<"p", "a">>), Path(TRUE, <<"p", "b">>)}
    /\ fs[<<"p", "b">>] = BadYaml
    /\ ~OnCycle(<<"p", "a">>)

-----------------------------------------------------------------------------
(* C21.                                                                    *)

\* Every key of d, at every level, is a string that names no member of the
\* accessor.
RECURSIVE PlainKeys(_)
PlainKeys(d) ==
    IF d.t = "map" THEN
        \A k \in DOMAIN d.v : IsStrKey(k) /\ k \notin ClassAttrs /\ PlainKeys(d.v[k])
    ELSE IF d.t = "seq" THEN \A i \in 1..Len(d.v) : PlainKeys(d.v[i])
    ELSE TRUE

\* The flattening of the accessor as it was constructed from a mapping of
\* plain keys, none of whose accessors is deeper than the limit, is the mapping.
C21_Back ==
    (aOut.op = "to_dict" /\ AsConstructed /\ PlainKeys(aIn) /\ AccDepth(aIn, 0) <= aOut.max) =>
        aOut.r = aIn

\* A flattening writes no field of any accessor.
C21_Reads ==
    (aOut' # aOut /\ aOut'.op = "to_dict") => (aHeap' = aHeap /\ aRoot' = aRoot)

\* C21: for every mapping m whose keys are strings that name no member of the
\* accessor, nested within the depth limit (100 by default), with values built
\* from mappings, sequences and scalars, DictToObj(m)._to_dict() equals m, and
\* the flattening leaves the fields of the accessor as they are.
C21_RoundTrip == [](C21_Back) /\ [][C21_Reads]_vars

\* A mapping with a mapping and a sequence in a sequence, and a mapping in a
\* mapping in it, came back from the default flattening as it was.
C21_Witness ==
    /\ aOut.op = "to_dict" /\ AsConstructed /\ aOut.max = DefaultMaxDepth
    /\ aIn = Doc2("a", Sq(<<Doc1("b", Doc1("c", Sc(0))), Sq(<<>>)>>), "b", Sc(2))
    /\ PlainKeys(aIn) /\ AccDepth(aIn, 0) = 2
    /\ Len(aHeap) = 3
    /\ aOut.r = aIn

====
